---- MODULE Spec2Model ----
(***************************************************************************)
(* Model of the preload cache coordinator (src/hooks/usePreloader.ts), the *)
(* loading screen that mounts it (LoadingScreen.tsx, App.tsx) and the      *)
(* section consumers that read the cache slot (SiteSettingsProvider,       *)
(* Gallery, Videos, Events).                                               *)
(*                                                                         *)
(* The host runtime is a single-threaded event loop: the code between two  *)
(* suspension points (await on a network answer, a timer, an image event)  *)
(* runs without interleaving, promise continuations included.  Each action *)
(* below is one such task.                                                 *)
(***************************************************************************)
EXTENDS Integers, Sequences, FiniteSets, TLC

\* ------------------------------------------------------------------ bounds
\* Number of times the loading screen may be mounted during one page load
\* (every mount starts a coordinator run).
MaxRuns == 2

\* ------------------------------------------------------- program constants
PhotoLimit == 12
VideoLimit == 6
EventLimit == 10
PhotoImageLimit == 6
VideoImageLimit == 3

\* ------------------------------------------------------------ value shapes
\* A nullable value is a sequence of length 0 (null) or 1.
Null == <<>>
Some(x) == <<x>>
IsNull(o) == o = <<>>

Min(a, b) == IF a < b THEN a ELSE b
Last(s) == s[Len(s)]
Take(s, n) == SubSeq(s, 1, Min(Len(s), n))

RunIds == 1..MaxRuns
Fields == {"settings", "photos", "videos", "events"}

\* ------------------------------------------------------ backend contents
\* Rows of site_settings (key/value rows, key unique).
AllSettingsRows ==
  << [key |-> "hero_title", value |-> "DJ"],
     [key |-> "contact_email", value |-> "a@b"] >>

\* Published rows of each content table, in the order the backend's
\* ORDER BY of the corresponding query returns them.
PhotosTable == << [id |-> "p1", url |-> TRUE], [id |-> "p2", url |-> TRUE] >>
VideosTable == << [id |-> "v1", thumbnail_url |-> TRUE],
                  [id |-> "v2", thumbnail_url |-> FALSE] >>
EventsTable == << [id |-> "e1"], [id |-> "e2"] >>

\* Contents of site_settings considered: a single row, and several rows
\* (the schema seeds a dozen).
SettingsTables == { SubSeq(AllSettingsRows, 1, 1), AllSettingsRows }

VARIABLES
  configured,          \* isSupabaseConfigured(): fixed for the page load
  settingsTable,       \* rows of site_settings: fixed for the page load
  preloadedDataCache,  \* the module-level cache slot (Null or Some(bundle))
  runs,                \* one record per coordinator run (one per mount)
  nruns,               \* number of runs started so far
  appMounted,          \* the App tree has been committed
  route,               \* "home" ("/") or "other" (any other path)
  isLoading,           \* AppContent.isLoading
  lsRun,               \* run owned by the mounted LoadingScreen, 0 if none
  isAnimationReady,    \* AnimationReadyProvider.isAnimationReady
  who,                 \* the section consumer under observation
  con                  \* state of that consumer

\* State of the admin console (pages/Admin.tsx renders one manager at a
\* time) and of the backend table and storage bucket that manager works on.
VARIABLES
  mgr,                 \* the manager shown by the Admin page ("none": no admin)
  table,               \* rows of the manager's backend table
  blobs,               \* ids of the rows whose blob is in the storage bucket
  ui,                  \* the manager's React state
  ops,                 \* invocations of the manager's async handlers
  nops,                \* number of invocations so far
  auth                 \* the session, the route and the login page

consoleVars == << mgr, table, blobs, ui, ops, nops >>
adminVars == << consoleVars, auth >>

vars == << configured, settingsTable, preloadedDataCache, runs, nruns,
           appMounted, route, isLoading, lsRun, isAnimationReady, who, con,
           mgr, table, blobs, ui, ops, nops, auth >>

\* ------------------------------------------------------------- the gateway
\* Answer of `.select('*').single()`: data only when exactly one row
\* matches, otherwise data null and an error.
SingleResponse(rows, net) ==
  IF net = "ok" /\ Len(rows) = 1
    THEN [data |-> Some(rows[1]), error |-> FALSE]
    ELSE [data |-> Null, error |-> TRUE]

\* Answer of a list query with `.limit(n)`: data is null on error.
ListResponse(rows, n, net) ==
  IF net = "ok"
    THEN [data |-> Some(Take(rows, n)), error |-> FALSE]
    ELSE [data |-> Null, error |-> TRUE]

\* `data || []`
OrEmpty(d) == IF IsNull(d) THEN <<>> ELSE d[1]

\* net \in {"ok", "error", "throw"}: answered with rows, answered with an
\* error object, or the awaited call throws (caught by the inner catch).
NetOutcomes == {"ok", "error", "throw"}

preloadSettings(rows, net) ==
  IF net = "throw" THEN Null ELSE SingleResponse(rows, net).data

preloadPhotos(net) ==
  IF net = "throw" THEN <<>>
  ELSE OrEmpty(ListResponse(PhotosTable, PhotoLimit, net).data)

preloadVideos(net) ==
  IF net = "throw" THEN <<>>
  ELSE OrEmpty(ListResponse(VideosTable, VideoLimit, net).data)

preloadEvents(net) ==
  IF net = "throw" THEN <<>>
  ELSE OrEmpty(ListResponse(EventsTable, EventLimit, net).data)

\* ------------------------------------------------------------ coordinator
IdleRun ==
  [ pc |-> "idle", settingsData |-> Null, photosData |-> <<>>,
    videosData |-> <<>>, eventsData |-> <<>>, net |-> <<>>,
    progress |-> <<>>, log |-> <<>>, imgPending |-> 0 ]

\* updateProgress(p, _): the values a run has emitted so far.
updateProgress(rn, p) == [rn EXCEPT !.progress = Append(@, p)]

ReadOrderSwapped == << "settings", "videos", "photos", "events" >>

\* Order in which the four reads are issued.
ReadOrder == << "settings", "photos", "videos", "events" >>

ReadProgressUnordered(f) ==
  CASE f = "settings" -> 25
    [] f = "photos" -> 20
    [] f = "videos" -> 50
    [] f = "events" -> 60

\* Progress emitted right before each read is issued.
ReadProgress(f) ==
  CASE f = "settings" -> 25
    [] f = "photos" -> 35
    [] f = "videos" -> 50
    [] f = "events" -> 60

IssueRead(rn, f) ==
  [updateProgress(rn, ReadProgress(f)) EXCEPT
     !.pc = f, !.log = Append(@, "req_" \o f)]

\* The object literal stored at usePreloader.ts:64-69.
Bundle(rn) ==
  [ settings |-> rn.settingsData, photos |-> rn.photosData,
    videos |-> rn.videosData, events |-> rn.eventsData ]

getPreloadedData == preloadedDataCache

RECURSIVE CountIf(_, _)
CountIf(s, field) ==
  IF s = <<>> THEN 0
  ELSE (IF IF field = "url" THEN Head(s).url ELSE Head(s).thumbnail_url
          THEN 1 ELSE 0) + CountIf(Tail(s), field)

\* Number of image requests preloadCriticalImages issues for a cache value.
criticalImages(cache) ==
  IF IsNull(cache) THEN 0
  ELSE CountIf(Take(cache[1].photos, PhotoImageLimit), "url")
       + CountIf(Take(cache[1].videos, VideoImageLimit), "thumbnail_url")

RECURSIVE Repeat(_, _)
Repeat(x, n) == IF n = 0 THEN <<>> ELSE <<x>> \o Repeat(x, n - 1)

\* Lines 81-85: progress 90 and 95, then the 300 ms settle timer.
Finalize(rn) ==
  [updateProgress(updateProgress(rn, 90), 95) EXCEPT !.pc = "settle"]

OuterCatchSilent(rn) == [rn EXCEPT !.pc = "done"]

\* Lines 88-92: the outer catch.
OuterCatch(rn) == [updateProgress(rn, 100) EXCEPT !.pc = "done"]

\* Lines 76-79: progress 75 and preloadCriticalImages() on the current
\* cache slot.  exc: the body of preloadCriticalImages throws before any
\* image is requested.
WarmImages(rn, cache, exc) ==
  LET r1 == updateProgress(rn, 75)
      n == criticalImages(cache)
  IN IF exc THEN OuterCatch(r1)
     ELSE IF n = 0 THEN Finalize(r1)
     ELSE [r1 EXCEPT !.pc = "images", !.imgPending = n,
                     !.log = @ \o Repeat("img", n)]

\* Lines 36-40: effect of mounting a component that calls usePreloader().
\* exc: preloadFonts() throws outside its inner try.
StartRun(rn, exc) ==
  LET r1 == [updateProgress(rn, 5) EXCEPT !.pc = "fonts"]
  IN IF exc THEN OuterCatch(r1) ELSE r1

\* Data a returned read leaves in the run's local variable.
ReadData(f, rows, net) ==
  CASE f = "settings" -> preloadSettings(rows, net)
    [] f = "photos" -> preloadPhotos(net)
    [] f = "videos" -> preloadVideos(net)
    [] f = "events" -> preloadEvents(net)

SetLocalSharedCatch(rn, f, d) ==
  IF d = <<>>
    THEN [rn EXCEPT !.settingsData = Null, !.photosData = <<>>,
                    !.videosData = <<>>, !.eventsData = <<>>]
  ELSE CASE f = "settings" -> [rn EXCEPT !.settingsData = d]
         [] f = "photos" -> [rn EXCEPT !.photosData = d]
         [] f = "videos" -> [rn EXCEPT !.videosData = d]
         [] f = "events" -> [rn EXCEPT !.eventsData = d]

SetLocal(rn, f, d) ==
  CASE f = "settings" -> [rn EXCEPT !.settingsData = d]
    [] f = "photos" -> [rn EXCEPT !.photosData = d]
    [] f = "videos" -> [rn EXCEPT !.videosData = d]
    [] f = "events" -> [rn EXCEPT !.eventsData = d]

StoreAfterReadEager(cache, rn, i) == Some(Bundle(rn))

StoreAfterReadNever(cache, rn, i) == cache

\* Value of the cache slot after the i-th read of a run has returned: the
\* single assignment at line 64 follows the last of the four awaits.
StoreAfterRead(cache, rn, i) ==
  IF i = Len(ReadOrder) THEN Some(Bundle(rn)) ELSE cache

\* ---------------------------------------------------------------- consumers
\* settings = SiteSettingsProvider, photos = Gallery, videos = Videos,
\* events = Events.  The provider sits above the router and is mounted
\* once; the other three are children of the Home page.  The consumers
\* share nothing but the cache slot, which none of them writes, so the
\* model follows one of them, chosen at the start.
Consumers == Fields
HomeConsumers == {"photos", "videos", "events"}

UnmountedConsumer ==
  [ mounted |-> FALSE, loading |-> TRUE, data |-> <<>>, src |-> "none",
    cached |-> "none", inflight |-> FALSE, requested |-> FALSE ]

\* The consumer's test on its field of the snapshot: `cachedData?.settings`
\* for the provider, `cachedData?.x && cachedData.x.length > 0` otherwise.
CacheHit(c, cache) ==
  /\ ~IsNull(cache)
  /\ IF c = "settings" THEN ~IsNull(cache[1].settings)
     ELSE Len(cache[1][c]) > 0

CachedField(c, cache) ==
  IF c = "settings" THEN cache[1].settings ELSE cache[1][c]

FetchOnMountNoFallback(c, cache) ==
  LET m == [UnmountedConsumer EXCEPT !.mounted = TRUE]
  IN IF ~configured THEN [m EXCEPT !.loading = FALSE]
     ELSE IF CacheHit(c, cache)
       THEN [m EXCEPT !.loading = FALSE, !.data = CachedField(c, cache),
                      !.src = "cache", !.cached = "bundle",
                      !.requested = (c = "photos")]
     ELSE [m EXCEPT !.loading = FALSE,
                    !.cached = IF IsNull(cache) THEN "null" ELSE "bundle"]

FetchOnMountKeepsLoading(c, cache) ==
  LET m == [UnmountedConsumer EXCEPT !.mounted = TRUE]
  IN IF ~configured THEN [m EXCEPT !.loading = FALSE]
     ELSE IF CacheHit(c, cache)
       THEN [m EXCEPT !.data = CachedField(c, cache),
                      !.src = "cache", !.cached = "bundle",
                      !.requested = (c = "photos")]
     ELSE [m EXCEPT !.src = "fetch", !.inflight = TRUE, !.requested = TRUE,
                    !.cached = IF IsNull(cache) THEN "null" ELSE "bundle"]

\* fetchSettings / fetchGallery / fetchVideos / fetchEvents up to their
\* first suspension point, as run by the mount effect.
FetchOnMount(c, cache) ==
  LET m == [UnmountedConsumer EXCEPT !.mounted = TRUE]
  IN IF ~configured THEN [m EXCEPT !.loading = FALSE]
     ELSE IF CacheHit(c, cache)
       THEN [m EXCEPT !.loading = FALSE, !.data = CachedField(c, cache),
                      !.src = "cache", !.cached = "bundle",
                      \* Gallery loads the albums in the background
                      !.requested = (c = "photos")]
     ELSE [m EXCEPT !.src = "fetch", !.inflight = TRUE, !.requested = TRUE,
                    !.cached = IF IsNull(cache) THEN "null" ELSE "bundle"]

\* Rows the consumer's own query returns (no limit clause).
OwnRows(c) ==
  CASE c = "settings" -> settingsTable
    [] c = "photos" -> PhotosTable
    [] c = "videos" -> VideosTable
    [] c = "events" -> EventsTable

\* No manager of the admin console is mounted.
ConsoleOff ==
  /\ mgr = "none"
  /\ table = {}
  /\ blobs = {}
  /\ ui = <<>>
  /\ ops = <<>>
  /\ nops = 0

\* The public site: the Admin page is not mounted and the session is not
\* looked at.
AdminOff ==
  /\ ConsoleOff
  /\ auth = <<>>

Init ==
  /\ configured \in BOOLEAN
  /\ settingsTable \in SettingsTables
  /\ preloadedDataCache = Null
  /\ runs = [r \in RunIds |-> IdleRun]
  /\ nruns = 0
  /\ appMounted = FALSE
  /\ route \in {"home", "other"}
  /\ isLoading = TRUE
  /\ lsRun = 0
  /\ isAnimationReady = FALSE
  /\ who \in Consumers
  /\ con = UnmountedConsumer
  /\ AdminOff

\* The effects of mounting the Home page and, while isLoading, the loading
\* screen: LoadingScreen precedes the routes in AppContent, so its effect
\* (the start of a run) fires first; it does not touch the cache slot.
MountHome(base, exc) ==
  /\ con' = IF who \in HomeConsumers
              THEN FetchOnMount(who, preloadedDataCache) ELSE base
  /\ IF isLoading
       THEN /\ nruns < MaxRuns
            /\ nruns' = nruns + 1
            /\ lsRun' = nruns + 1
            /\ runs' = [runs EXCEPT ![nruns + 1] = StartRun(@, exc)]
       ELSE /\ exc = FALSE
            /\ UNCHANGED << nruns, lsRun, runs >>

\* First commit of <App/>: the route's page and the providers mount.
AppMount ==
  /\ ~appMounted
  /\ appMounted' = TRUE
  /\ LET withProvider ==
         IF who = "settings"
           THEN FetchOnMount("settings", preloadedDataCache) ELSE con
     IN IF route = "home"
          THEN \E exc \in BOOLEAN : MountHome(withProvider, exc)
          ELSE /\ con' = withProvider
               /\ UNCHANGED << nruns, lsRun, runs >>
  /\ UNCHANGED << configured, settingsTable, preloadedDataCache, route,
                  isLoading, isAnimationReady, who >>
  /\ UNCHANGED adminVars

\* Client-side route change (history navigation, redirect).
Navigate(to) ==
  /\ appMounted
  /\ to # route
  /\ route' = to
  /\ IF to = "home"
       THEN \E exc \in BOOLEAN : MountHome(con, exc)
       ELSE /\ con' = IF who \in HomeConsumers THEN UnmountedConsumer ELSE con
            /\ lsRun' = 0
            /\ UNCHANGED << nruns, runs >>
  /\ UNCHANGED << configured, settingsTable, preloadedDataCache, appMounted,
                  isLoading, isAnimationReady, who >>
  /\ UNCHANGED adminVars

\* AnimationReadyProvider: fonts ready, then its timers fire.
AnimationReady ==
  /\ appMounted
  /\ ~isAnimationReady
  /\ isAnimationReady' = TRUE
  /\ UNCHANGED << configured, settingsTable, preloadedDataCache, runs, nruns,
                  appMounted, route, isLoading, lsRun, who, con >>
  /\ UNCHANGED adminVars

LoadCompleteEarly ==
  /\ lsRun # 0
  /\ runs[lsRun].pc = "done"
  /\ isLoading' = FALSE
  /\ lsRun' = 0
  /\ UNCHANGED << configured, settingsTable, preloadedDataCache, runs, nruns,
                  appMounted, route, isAnimationReady, who, con >>
  /\ UNCHANGED adminVars

\* LoadingScreen's 500 ms exit timer fires: onLoadComplete().
LoadComplete ==
  /\ lsRun # 0
  /\ runs[lsRun].pc = "done"
  /\ isAnimationReady
  /\ isLoading' = FALSE
  /\ lsRun' = 0
  /\ UNCHANGED << configured, settingsTable, preloadedDataCache, runs, nruns,
                  appMounted, route, isAnimationReady, who, con >>
  /\ UNCHANGED adminVars

FontsDoneUnguarded(r) ==
  /\ runs[r].pc = "fonts"
  /\ runs' = [runs EXCEPT ![r] =
       IssueRead(updateProgress(updateProgress(@, 15), 20), ReadOrder[1])]
  /\ UNCHANGED << configured, settingsTable, preloadedDataCache, nruns,
                  appMounted, route, isLoading, lsRun, isAnimationReady,
                  who, con >>
  /\ UNCHANGED adminVars

\* preloadFonts() resolves (fonts ready or its 2 s timeout).
FontsDone(r) ==
  /\ runs[r].pc = "fonts"
  /\ LET r1 == updateProgress(runs[r], 15)
     IN IF configured
          THEN runs' = [runs EXCEPT ![r] =
                          IssueRead(updateProgress(r1, 20), ReadOrder[1])]
          ELSE \E exc \in BOOLEAN :
                 runs' = [runs EXCEPT ![r] =
                   WarmImages(updateProgress(r1, 70), preloadedDataCache, exc)]
  /\ UNCHANGED << configured, settingsTable, preloadedDataCache, nruns,
                  appMounted, route, isLoading, lsRun, isAnimationReady, who, con >>
  /\ UNCHANGED adminVars

\* The read in flight returns; the run goes on to the next read or, after
\* the last one, stores the bundle and starts warming images.
ReadReturn(r, net, exc) ==
  /\ runs[r].pc \in Fields
  /\ LET f == runs[r].pc
         i == CHOOSE k \in 1..Len(ReadOrder) : ReadOrder[k] = f
         r1 == [SetLocal(runs[r], f, ReadData(f, settingsTable, net)) EXCEPT
                  !.log = Append(@, "resp_" \o f),
                  !.net = Append(@, IF net = "ok" THEN "ok" ELSE "fail")]
         cache1 == StoreAfterRead(preloadedDataCache, r1, i)
     IN /\ preloadedDataCache' = cache1
        /\ IF i < Len(ReadOrder)
             THEN /\ exc = FALSE
                  /\ runs' = [runs EXCEPT ![r] = IssueRead(r1, ReadOrder[i + 1])]
             ELSE runs' = [runs EXCEPT ![r] =
                    WarmImages(updateProgress(
                      [r1 EXCEPT !.log = Append(@, "write")], 70), cache1, exc)]
  /\ UNCHANGED << configured, settingsTable, nruns, appMounted, route,
                  isLoading, lsRun, isAnimationReady, who, con >>
  /\ UNCHANGED adminVars

\* One image request settles: onload, onerror or the 3 s timeout.  When
\* the last one settles Promise.allSettled resolves and the run goes on.
ImageOutcomes == {"load", "error", "timeout"}

ImageSettleAll(r, outcome) ==
  /\ runs[r].pc = "images"
  /\ outcome \in ImageOutcomes
  /\ LET r1 == [runs[r] EXCEPT !.imgPending = @ - 1]
     IN runs' = [runs EXCEPT ![r] =
                   IF outcome = "error" THEN OuterCatch(r1)
                   ELSE IF r1.imgPending = 0 THEN Finalize(r1) ELSE r1]
  /\ UNCHANGED << configured, settingsTable, preloadedDataCache, nruns,
                  appMounted, route, isLoading, lsRun, isAnimationReady, who, con >>
  /\ UNCHANGED adminVars

\* Promise.allSettled waits for every request whatever its outcome.
ImageSettle(r, outcome) ==
  /\ runs[r].pc = "images"
  /\ outcome \in ImageOutcomes
  /\ LET r1 == [runs[r] EXCEPT !.imgPending = @ - 1]
     IN runs' = [runs EXCEPT ![r] =
                   IF r1.imgPending = 0 THEN Finalize(r1) ELSE r1]
  /\ UNCHANGED << configured, settingsTable, preloadedDataCache, nruns,
                  appMounted, route, isLoading, lsRun, isAnimationReady, who, con >>
  /\ UNCHANGED adminVars

\* The 300 ms settle timer fires (line 86).
SettleDone(r) ==
  /\ runs[r].pc = "settle"
  /\ runs' = [runs EXCEPT ![r] = [updateProgress(@, 100) EXCEPT !.pc = "done"]]
  /\ UNCHANGED << configured, settingsTable, preloadedDataCache, nruns,
                  appMounted, route, isLoading, lsRun, isAnimationReady, who, con >>
  /\ UNCHANGED adminVars

\* The own read of a mounted consumer returns.
FetchReturn(net) ==
  /\ con.inflight
  /\ con' = [con EXCEPT !.inflight = FALSE, !.loading = FALSE,
                        !.data = IF net = "ok" THEN OwnRows(who) ELSE @]
  /\ UNCHANGED << configured, settingsTable, preloadedDataCache, runs, nruns,
                  appMounted, route, isLoading, lsRun, isAnimationReady, who >>
  /\ UNCHANGED adminVars

Next ==
  \/ AppMount
  \/ \E to \in {"home", "other"} : Navigate(to)
  \/ AnimationReady
  \/ LoadComplete
  \/ \E r \in RunIds : FontsDone(r)
  \/ \E r \in RunIds, net \in NetOutcomes, exc \in BOOLEAN : ReadReturn(r, net, exc)
  \/ \E r \in RunIds, o \in ImageOutcomes : ImageSettle(r, o)
  \/ \E r \in RunIds : SettleDone(r)
  \/ \E net \in NetOutcomes : FetchReturn(net)

Spec == Init /\ [][Next]_vars

\* Every awaited operation of a run is answered or times out.
RunProgress(r) ==
  FontsDone(r)
  \/ (\E net \in NetOutcomes, exc \in BOOLEAN : ReadReturn(r, net, exc))
  \/ (\E o \in ImageOutcomes : ImageSettle(r, o))
  \/ SettleDone(r)

\* A run reads neither the route nor the mounted state of the screen that
\* started it, so the liveness of a run is checked without route changes
\* and for one consumer.
FairInit == Init /\ who = "photos" /\ route = "home"

FairNext ==
  \/ AppMount
  \/ AnimationReady
  \/ LoadComplete
  \/ \E r \in RunIds : FontsDone(r)
  \/ \E r \in RunIds, net \in NetOutcomes, exc \in BOOLEAN : ReadReturn(r, net, exc)
  \/ \E r \in RunIds, o \in ImageOutcomes : ImageSettle(r, o)
  \/ \E r \in RunIds : SettleDone(r)
  \/ \E net \in NetOutcomes : FetchReturn(net)

FairSpec ==
  FairInit /\ [][FairNext]_vars /\ \A r \in RunIds : WF_vars(RunProgress(r))

\* ---------------------------------------------------------- admin managers
\* Handler invocations followed per behaviour (the mount effect included).
MaxOps == 3
\* Rows a table may hold.
MaxRows == 3

Managers == {"videos", "events", "albums", "photos", "messages"}
RowIds == 1..MaxRows
OpIds == 1..MaxOps

\* A backend row: the columns the handlers read or write.  storage_path is
\* TRUE when the column holds a path.
Row(i, f, p, s) ==
  [id |-> i, is_featured |-> f, is_published |-> p, storage_path |-> s]

\* Tables the admin may find: two rows, at most one featured video; photos
\* always have a storage path, an uploaded video has one.
InitialTables(m) ==
  CASE m = "videos" ->
         { {Row(1, f, TRUE, TRUE), Row(2, FALSE, TRUE, FALSE)} : f \in BOOLEAN }
    [] m = "events" ->
         { {Row(1, f, TRUE, FALSE), Row(2, FALSE, TRUE, FALSE)} : f \in BOOLEAN }
    [] m = "photos" ->
         { {Row(1, FALSE, TRUE, TRUE), Row(2, FALSE, TRUE, TRUE)} }
    [] OTHER ->
         { {Row(1, FALSE, TRUE, FALSE), Row(2, FALSE, TRUE, FALSE)} }

\* The form of the create/edit modal.
FormData(t, vt, u, x, d, f, p) ==
  [title |-> t, video_type |-> vt, url |-> u, external_id |-> x,
   event_date |-> d, is_featured |-> f, is_published |-> p,
   cover_image_url |-> ""]

initialFormData == FormData("", "youtube", "", "", "", FALSE, TRUE)

\* A pasted url either matches the YouTube pattern ("yt"), the Vimeo
\* pattern ("vm") or neither ("", "x").
extractVideoId(url, type) ==
  IF type = "youtube" /\ url = "yt" THEN "ytid"
  ELSE IF type = "vimeo" /\ url = "vm" THEN "vmid"
  ELSE ""

\* String.prototype.trim on the titles considered.
Trim(t) == IF t = " " THEN "" ELSE t

\* useState initial values of a manager.
InitialUi ==
  [ list |-> {}, loading |-> TRUE, showModal |-> FALSE, editing |-> Null,
    form |-> initialFormData, selected |-> {} ]

IdleOp ==
  [ h |-> "none", pc |-> "idle", arg |-> Null, editing |-> Null,
    form |-> Null, sel |-> {}, paths |-> {}, log |-> <<>>, net |-> <<>>,
    res |-> "none", dialog |-> "none", conc |-> FALSE ]

\* An invocation issues a request and suspends on its answer.
Issue(op, req) == [op EXCEPT !.pc = req, !.log = Append(@, "req_" \o req)]

\* The answer to the awaited request arrives.
Answered(op, net) ==
  [op EXCEPT !.log = Append(@, "resp_" \o op.pc),
             !.net = Append(@, IF net = "ok" THEN "ok" ELSE "fail")]

Finish(op, res) == [op EXCEPT !.pc = "done", !.res = res]

fetchListShowsLoading(w, op) ==
  IF ~configured
    THEN [w |-> [w EXCEPT !.ui.loading = FALSE], op |-> Finish(op, "offline")]
    ELSE [w |-> [w EXCEPT !.ui.loading = TRUE], op |-> Issue(op, "fetch")]

fetchListUnguarded(w, op) == [w |-> w, op |-> Issue(op, "fetch")]

\* fetchVideos / fetchEvents / fetchAlbums / fetchData / fetchMessages up to
\* the await: the loading flag is not touched before the read is issued.
fetchList(w, op) ==
  IF ~configured
    THEN [w |-> [w EXCEPT !.ui.loading = FALSE], op |-> Finish(op, "offline")]
    ELSE [w |-> w, op |-> Issue(op, "fetch")]

\* ... and from the answer on: the rows replace the list when the read
\* succeeded, and the finally block ends the loading state.
fetchAnswered(w, op, net) ==
  [ w |-> [w EXCEPT !.ui.list = IF net = "ok" THEN w.table ELSE @,
                    !.ui.loading = FALSE],
    op |-> Finish(op, IF net = "ok" THEN "ok" ELSE "fetch_failed") ]

\* Update of the rows matching a filter, as PostgREST applies it.
SetFeatured(t, ids, v) ==
  { IF r.id \in ids THEN [r EXCEPT !.is_featured = v] ELSE r : r \in t }

SetPublished(t, ids, v) ==
  { IF r.id \in ids THEN [r EXCEPT !.is_published = v] ELSE r : r \in t }

Ids(t) == { r.id : r \in t }

\* toggleFeatured(video) up to its first await.  The Videos manager first
\* clears the flag on the other rows when the clicked row is not featured;
\* the Events manager only updates the clicked row.
toggleFeatured(m, op, video) ==
  LET o1 == [op EXCEPT !.h = "toggleFeatured", !.arg = Some(video)]
  IN IF m = "videos" /\ ~video.is_featured
       THEN Issue(o1, "clear") ELSE Issue(o1, "set")

\* VideosManager.tsx:331: the answer of the clear-others update is awaited
\* and discarded; only a thrown exception reaches the catch.
clearAnswered(w, op, net) ==
  IF net = "throw" THEN [w |-> w, op |-> Finish(op, "failed")]
  ELSE [ w |-> [w EXCEPT !.table =
                  IF net = "ok"
                    THEN SetFeatured(@, Ids(@) \ {op.arg[1].id}, FALSE)
                    ELSE @],
         op |-> Issue(op, "set") ]

\* The update of the clicked row is answered: on success the list is
\* fetched again, on an error the catch reports it.
setAnswered(w, op, net) ==
  IF net # "ok" THEN [w |-> w, op |-> Finish(op, "failed")]
  ELSE fetchList(
         [w EXCEPT !.table =
            SetFeatured(@, {op.arg[1].id}, ~op.arg[1].is_featured)], op)

\* togglePublished(row) up to its await, and from its answer on.
togglePublished(op, row) ==
  Issue([op EXCEPT !.h = "togglePublished", !.arg = Some(row)], "publish")

publishAnswered(w, op, net) ==
  IF net # "ok" THEN [w |-> w, op |-> Finish(op, "failed")]
  ELSE fetchList(
         [w EXCEPT !.table =
            SetPublished(@, {op.arg[1].id}, ~op.arg[1].is_published)], op)

ValidUntrimmed(m, f) ==
  CASE m = "videos" ->
         /\ f.title # ""
         /\ ~(f.video_type # "upload" /\ f.external_id = "")
    [] m = "events" -> ~(f.title = "" \/ f.event_date = "")
    [] OTHER -> f.title # ""

\* The local validation of handleSubmit in the three managers with a form.
Valid(m, f) ==
  CASE m = "videos" ->
         /\ Trim(f.title) # ""
         /\ ~(f.video_type # "upload" /\ f.external_id = "")
    [] m = "events" -> ~(Trim(f.title) = "" \/ f.event_date = "")
    [] OTHER -> Trim(f.title) # ""

\* handleSubmit up to its await: the closure holds the form and the record
\* being edited as rendered.
handleSubmit(m, op, u) ==
  LET o1 == [op EXCEPT !.h = "handleSubmit", !.form = Some(u.form),
                       !.editing = u.editing]
  IN IF Valid(m, u.form) THEN Issue(o1, "save") ELSE Finish(o1, "invalid")

\* Ids given to the rows created so far and to the next one.
Created(os) ==
  Cardinality({ o \in DOMAIN os :
    os[o].h = "handleSubmit" /\ IsNull(os[o].editing)
      /\ "resp_save" \in { os[o].log[i] : i \in 1..Len(os[o].log) }
      /\ os[o].net[1] = "ok" })

NewId(os) == 3 + Created(os)

\* The row written by a submit: the Albums table has no is_featured column.
Saved(m, f, i, path) ==
  Row(i, IF m = "albums" THEN FALSE ELSE f.is_featured, f.is_published, path)

saveAnsweredOptimistic(m, w, op, os, net) ==
  LET closed == [w EXCEPT !.ui.showModal = FALSE, !.ui.editing = Null,
                          !.ui.form = initialFormData]
  IN IF net # "ok" THEN [w |-> closed, op |-> Finish(op, "rejected")]
     ELSE LET f == op.form[1]
              t1 == IF IsNull(op.editing)
                      THEN w.table \cup {Saved(m, f, NewId(os), FALSE)}
                      ELSE { IF r.id = op.editing[1].id
                               THEN Saved(m, f, r.id, r.storage_path) ELSE r
                             : r \in w.table }
          IN fetchList([closed EXCEPT !.table = t1], op)

\* handleSubmit from the answer of its update/insert on.
saveAnswered(m, w, op, os, net) ==
  IF net # "ok" THEN [w |-> w, op |-> Finish(op, "rejected")]
  ELSE LET f == op.form[1]
           t1 == IF IsNull(op.editing)
                   THEN w.table \cup {Saved(m, f, NewId(os), FALSE)}
                   ELSE { IF r.id = op.editing[1].id
                            THEN Saved(m, f, r.id, r.storage_path) ELSE r
                          : r \in w.table }
       IN fetchList(
            [w EXCEPT !.table = t1, !.ui.showModal = FALSE,
                      !.ui.editing = Null, !.ui.form = initialFormData], op)

handleDeleteUnconfirmed(m, op, row, confirmed) ==
  LET o1 == [op EXCEPT !.h = "handleDelete", !.arg = Some(row),
                       !.sel = {row.id}]
  IN IF m \in {"videos", "photos"} /\ row.storage_path
       THEN Issue([o1 EXCEPT !.paths = {row.id}], "remove")
     ELSE Issue(o1, "delete")

\* handleDelete up to its first await.  confirmed: the answer to confirm().
\* The Videos and Photos managers first remove the blob of a row that has
\* a storage path.
handleDelete(m, op, row, confirmed) ==
  LET o1 == [op EXCEPT !.h = "handleDelete", !.arg = Some(row),
                       !.sel = {row.id}]
  IN IF ~confirmed THEN Finish(o1, "declined")
     ELSE IF m \in {"videos", "photos"} /\ row.storage_path
       THEN Issue([o1 EXCEPT !.paths = {row.id}], "remove")
     ELSE Issue(o1, "delete")

\* PhotosManager.deleteSelected up to its first await.
deleteSelected(op, u, confirmed) ==
  LET o1 == [op EXCEPT !.h = "deleteSelected", !.sel = u.selected]
      paths == { r.id : r \in { x \in u.list :
                                  x.id \in u.selected /\ x.storage_path } }
  IN IF ~confirmed THEN Finish(o1, "declined")
     ELSE IF paths # {} THEN Issue([o1 EXCEPT !.paths = paths], "remove")
     ELSE Issue(o1, "delete")

\* The answer of storage.remove is awaited and discarded.
removeAnswered(w, op, net) ==
  IF net = "throw" THEN [w |-> w, op |-> Finish(op, "failed")]
  ELSE [ w |-> [w EXCEPT !.blobs = IF net = "ok" THEN @ \ op.paths ELSE @],
         op |-> Issue(op, "delete") ]

deleteAnsweredNoRefresh(w, op, net) ==
  IF net # "ok" THEN [w |-> w, op |-> Finish(op, "failed")]
  ELSE [ w |-> [w EXCEPT !.table = { r \in @ : r.id \notin op.sel },
                  !.ui.selected = IF op.h = "deleteSelected" THEN {} ELSE @],
         op |-> Finish(op, "ok") ]

\* The row delete is answered.
deleteAnswered(w, op, net) ==
  IF net # "ok" THEN [w |-> w, op |-> Finish(op, "failed")]
  ELSE fetchList(
         [w EXCEPT !.table = { r \in @ : r.id \notin op.sel },
                   !.ui.selected = IF op.h = "deleteSelected" THEN {} ELSE @],
         op)

\* Forms the admin may have typed by the time of a submit: the valid ones
\* with either value of the featured box, and one form for each way of
\* failing the validation.  The title input is `required`, so the browser
\* never submits an empty title.
FormInputs(m) ==
  CASE m = "videos" ->
         { FormData("t", "youtube", "yt", extractVideoId("yt", "youtube"),
                    "", f, TRUE) : f \in BOOLEAN }
         \cup
         { FormData("t", "upload", "", "", "", TRUE, TRUE),
           FormData(" ", "youtube", "yt", extractVideoId("yt", "youtube"),
                    "", FALSE, TRUE),
           FormData("t", "youtube", "x", extractVideoId("x", "youtube"),
                    "", FALSE, TRUE),
           FormData("t", "vimeo", "yt", extractVideoId("yt", "vimeo"),
                    "", FALSE, TRUE) }
    [] m = "events" ->
         { FormData("t", "youtube", "", "", "d", f, TRUE) : f \in BOOLEAN }
         \cup
         { FormData(" ", "youtube", "", "", "d", FALSE, TRUE),
           FormData("t", "youtube", "", "", "", FALSE, TRUE) }
    [] OTHER ->
         { FormData(t, "youtube", "", "", "", FALSE, TRUE) : t \in {" ", "t"} }

\* openEditModal: the form is filled from the row.
FormOf(m, row) ==
  CASE m = "videos" ->
         IF row.storage_path
           THEN FormData("t", "upload", "", "", "", row.is_featured,
                         row.is_published)
           ELSE FormData("t", "youtube", "yt", "ytid", "", row.is_featured,
                         row.is_published)
    [] m = "events" ->
         FormData("t", "youtube", "", "", "d", row.is_featured,
                  row.is_published)
    [] OTHER ->
         FormData("t", "youtube", "", "", "", FALSE, row.is_published)

\* ------------------------------------------------------ the contact form
\* The public contact form (sections/About.tsx, Contact) writes the table
\* the Messages manager reads.
ContactForm(n, e, msg) == [name |-> n, email |-> e, message |-> msg]

initialContactForm == ContactForm("", "", "")

\* /^[^\s@]+@[^\s@]+\.[^\s@]+$/ on the addresses considered.
emailRegexTest(e) == e \in {"a@b.c"}

\* What the visitor may have typed when the submit event fires: name, email
\* and message are `required` and the email input has type email, which
\* accepts an address without a dot in its domain.
ContactInputs ==
  { ContactForm("n", e, "m") : e \in {"a@b.c", "a@b"} }

InitialContactUi ==
  [ form |-> initialContactForm, loading |-> FALSE, status |-> "idle",
    errorMessage |-> "" ]

\* Contact.handleSubmit up to its await.
contactSubmit(w, op) ==
  LET f == w.ui.form
      o1 == [op EXCEPT !.h = "contactSubmit", !.form = Some(f)]
      failed(msg) ==
        [ w |-> [w EXCEPT !.ui.status = "error", !.ui.errorMessage = msg,
                          !.ui.loading = FALSE],
          op |-> Finish(o1, "invalid") ]
  IN IF f.name = "" \/ f.email = "" \/ f.message = "" THEN failed("required")
     ELSE IF ~emailRegexTest(f.email) THEN failed("email")
     ELSE IF configured
       THEN [ w |-> [w EXCEPT !.ui.status = "idle", !.ui.errorMessage = "",
                              !.ui.loading = TRUE],
              op |-> Issue(o1, "insert") ]
     ELSE [ w |-> [w EXCEPT !.ui.status = "success", !.ui.errorMessage = "",
                            !.ui.form = initialContactForm,
                            !.ui.loading = FALSE],
            op |-> Finish(o1, "offline") ]

contactAnsweredClears(w, op, net) ==
  IF net = "ok"
    THEN [ w |-> [w EXCEPT !.table = @ \cup {op.form[1]},
                           !.ui.status = "success",
                           !.ui.form = initialContactForm,
                           !.ui.loading = FALSE],
           op |-> Finish(op, "ok") ]
    ELSE [ w |-> [w EXCEPT !.ui.status = "error", !.ui.errorMessage = "send",
                           !.ui.form = initialContactForm,
                           !.ui.loading = FALSE],
           op |-> Finish(op, "rejected") ]

\* ... and from the answer of the insert on.
contactAnswered(w, op, net) ==
  IF net = "ok"
    THEN [ w |-> [w EXCEPT !.table = @ \cup {op.form[1]},
                           !.ui.status = "success",
                           !.ui.form = initialContactForm,
                           !.ui.loading = FALSE],
           op |-> Finish(op, "ok") ]
    ELSE [ w |-> [w EXCEPT !.ui.status = "error", !.ui.errorMessage = "send",
                           !.ui.loading = FALSE],
           op |-> Finish(op, "rejected") ]

World == [table |-> table, blobs |-> blobs, ui |-> ui]

InFlight(op) == op.pc \notin {"idle", "done"}
Busy == \E o \in OpIds : InFlight(ops[o]) /\ ops[o].h # "mount"

\* The variables of the public site, which the admin console leaves alone.
siteVars ==
  << configured, settingsTable, preloadedDataCache, runs, nruns, appMounted,
     route, isLoading, lsRun, isAnimationReady, who, con >>

\* A handler is invoked: its synchronous part has run.
Start(op) ==
  /\ nops < MaxOps
  /\ nops' = nops + 1
  /\ ops' = [ o \in OpIds |->
               IF o = nops + 1 THEN [op EXCEPT !.conc = Busy]
               ELSE IF InFlight(ops[o]) /\ ops[o].h # "mount"
                 THEN [ops[o] EXCEPT !.conc = TRUE]
               ELSE ops[o] ]

\* The rows and their buttons are rendered once the manager is configured
\* and not loading.
Shown(row) == configured /\ mgr \in Managers /\ ~ui.loading /\ row \in ui.list

HasForm == configured /\ mgr \in {"videos", "events", "albums"}

\* ------------------------------------------------ session and route gate
Paths == {"/", "/login", "/admin"}

ProtectedRouteNoSpinner(user, loading) ==
  IF IsNull(user) /\ ~loading THEN "to_login" ELSE "Admin"

\* ProtectedRoute: what the /admin route renders for the values of
\* useAuth().
ProtectedRoute(user, loading) ==
  IF loading THEN "spinner"
  ELSE IF IsNull(user) THEN "to_login"
  ELSE "Admin"

\* Login: spinner, <Navigate to="/admin">, or the form.
Login(user, loading) ==
  IF loading THEN "spinner"
  ELSE IF ~IsNull(user) THEN "to_admin"
  ELSE "LoginForm"

\* AppRoutes: the element of the matching route.
Element(path, user, loading) ==
  CASE path = "/admin" -> ProtectedRoute(user, loading)
    [] path = "/login" -> Login(user, loading)
    [] OTHER -> "Home"

\* useState of the Login page.
InitialLogin ==
  [email |-> "", password |-> "", error |-> "", isLoading |-> FALSE]

\* The route is rendered and every <Navigate replace> is followed; a Login
\* page that is not rendered loses its state.
RECURSIVE Routed(_)
Routed(a) ==
  LET e == Element(a.path, a.user, a.loading)
      off == [a EXCEPT !.login = InitialLogin, !.live = FALSE]
  IN IF e = "to_login" THEN Routed([off EXCEPT !.path = "/login"])
     ELSE IF e = "to_admin" THEN Routed([off EXCEPT !.path = "/admin"])
     ELSE IF e = "LoginForm" THEN [a EXCEPT !.view = e]
     ELSE [off EXCEPT !.view = e]

\* The auth provider right after mount: the stored session is being looked
\* up.  session: the backend holds a valid session for this browser.
InitialAuth(path, session) ==
  Routed([ user |-> Null, loading |-> TRUE, session |-> session,
           path |-> path, view |-> "none", login |-> InitialLogin,
           pending |-> "none", live |-> FALSE ])

\* A signed-in admin on the Admin page.
SignedIn ==
  Routed([InitialAuth("/admin", TRUE) EXCEPT
            !.user = Some("admin"), !.loading = FALSE])

AuthInit ==
  /\ configured = TRUE
  /\ settingsTable = AllSettingsRows
  /\ preloadedDataCache = Null
  /\ runs = [r \in RunIds |-> IdleRun]
  /\ nruns = 0
  /\ appMounted = TRUE
  /\ isLoading = TRUE
  /\ lsRun = 0
  /\ isAnimationReady = FALSE
  /\ who = "settings"
  /\ con = UnmountedConsumer
  /\ ConsoleOff
  /\ \E p \in Paths, s \in BOOLEAN :
       /\ auth = InitialAuth(p, s)
       /\ route = IF p = "/" THEN "home" ELSE "other"

\* The lookup of the stored session ends.
AuthResolved ==
  /\ auth.loading
  /\ auth' = Routed([auth EXCEPT
               !.loading = FALSE,
               !.user = IF auth.session THEN Some("admin") ELSE Null])
  /\ UNCHANGED << siteVars, consoleVars >>

\* The address bar, a link or the history moves to another path.
GoTo(p) ==
  /\ p \in Paths
  /\ p # auth.path
  /\ auth' = Routed([auth EXCEPT !.path = p])
  /\ UNCHANGED << siteVars, consoleVars >>

\* The onChange handlers of the email and password inputs.
TypeCredentials(e, pw) ==
  /\ auth.view = "LoginForm"
  /\ auth' = [auth EXCEPT !.login.email = e, !.login.password = pw]
  /\ UNCHANGED << siteVars, consoleVars >>

\* Login.handleSubmit up to its await; both inputs are `required` and the
\* button is disabled while isLoading.
LoginSubmit ==
  /\ auth.view = "LoginForm"
  /\ ~auth.login.isLoading
  /\ auth.login.email # "" /\ auth.login.password # ""
  /\ auth.pending = "none"
  /\ auth' = [auth EXCEPT !.login.error = "", !.login.isLoading = TRUE,
                          !.pending = auth.login.password, !.live = TRUE]
  /\ UNCHANGED << siteVars, consoleVars >>

\* signIn answers: a session for the right password, an error otherwise;
\* then the rest of Login.handleSubmit, if that page is still mounted.
SignInAnswer(net) ==
  /\ auth.pending # "none"
  /\ LET ok == net = "ok" /\ auth.pending = "good"
         a1 == [auth EXCEPT
                  !.pending = "none",
                  !.session = IF ok THEN TRUE ELSE @,
                  !.user = IF ok THEN Some("admin") ELSE @,
                  !.login = IF auth.live
                              THEN [@ EXCEPT !.isLoading = FALSE,
                                     !.error = IF ok THEN @
                                               ELSE IF net = "ok"
                                                 THEN "invalid" ELSE "network"]
                              ELSE @]
     IN auth' = Routed(a1)
  /\ UNCHANGED << siteVars, consoleVars >>

\* The sign-out button of the Admin page.
SignOut ==
  /\ auth.view = "Admin"
  /\ auth' = Routed([auth EXCEPT !.user = Null, !.session = FALSE])
  /\ UNCHANGED << siteVars, consoleVars >>

\* The session ends outside this page (expiry, sign-out in another tab) and
\* the provider's listener drops the user.
SessionEnded ==
  /\ auth.session
  /\ ~auth.loading
  /\ auth' = Routed([auth EXCEPT !.user = Null, !.session = FALSE])
  /\ UNCHANGED << siteVars, consoleVars >>

AuthNext ==
  \/ AuthResolved
  \/ \E p \in Paths : GoTo(p)
  \/ \E e \in {"", "e"}, pw \in {"", "good", "bad"} : TypeCredentials(e, pw)
  \/ LoginSubmit
  \/ \E net \in {"ok", "error"} : SignInAnswer(net)
  \/ SignOut
  \/ SessionEnded

AuthSpec == AuthInit /\ [][AuthNext]_vars

\* The Admin page with one manager mounted; its mount effect has issued
\* the first list read.
AdminInit ==
  /\ configured \in BOOLEAN
  /\ settingsTable = AllSettingsRows
  /\ preloadedDataCache = Null
  /\ runs = [r \in RunIds |-> IdleRun]
  /\ nruns = 0
  /\ appMounted = TRUE
  /\ route = "other"
  /\ isLoading = TRUE
  /\ lsRun = 0
  /\ isAnimationReady = FALSE
  /\ who = "settings"
  /\ con = UnmountedConsumer
  /\ auth = SignedIn
  /\ mgr \in Managers \cup {"contact"}
  /\ IF mgr = "contact"
       THEN /\ table = {}
            /\ blobs = {}
            /\ nops = 0
            /\ ui = InitialContactUi
            /\ ops = [o \in OpIds |-> IdleOp]
       ELSE /\ table \in InitialTables(mgr)
            /\ blobs = { r.id : r \in { x \in table : x.storage_path } }
            /\ nops = 1
            /\ LET r == fetchList(
                          [table |-> table, blobs |-> blobs, ui |-> InitialUi],
                          [IdleOp EXCEPT !.h = "mount"])
               IN /\ ui = r.w.ui
                  /\ ops = [o \in OpIds |-> IF o = 1 THEN r.op ELSE IdleOp]

openNewModal ==
  /\ HasForm
  /\ ui' = [ui EXCEPT !.editing = Null, !.form = initialFormData,
                      !.showModal = TRUE]
  /\ UNCHANGED << table, blobs, ops, nops, mgr >>
  /\ UNCHANGED << siteVars, auth >>

openEditModal(row) ==
  /\ HasForm
  /\ Shown(row)
  /\ ui' = [ui EXCEPT !.editing = Some(row), !.form = FormOf(mgr, row),
                      !.showModal = TRUE]
  /\ UNCHANGED << table, blobs, ops, nops, mgr >>
  /\ UNCHANGED << siteVars, auth >>

\* The close and cancel buttons of the modal: setShowModal(false).
CloseModal ==
  /\ HasForm
  /\ ui.showModal
  /\ ui' = [ui EXCEPT !.showModal = FALSE]
  /\ UNCHANGED << table, blobs, ops, nops, mgr >>
  /\ UNCHANGED << siteVars, auth >>

\* The rows rendered by a manager, and the forms its modal may hold when
\* it is submitted (as typed, or as opened).
Listed == IF mgr \in Managers THEN ui.list ELSE {}
Typed == IF mgr \in Managers THEN FormInputs(mgr) \cup {ui.form} ELSE {}

\* Submits of the create form issued so far.
Creates ==
  Cardinality({ o \in OpIds :
    ops[o].h = "handleSubmit" /\ IsNull(ops[o].editing)
      /\ ops[o].res # "invalid" })

\* The admin edits the form of the modal (the onChange handlers of its
\* inputs leave f in formData) and submits it.
Submit(f) ==
  /\ HasForm
  /\ ui.showModal
  /\ f \in Typed
  /\ f.title # ""
  /\ (IsNull(ui.editing) /\ Valid(mgr, f)) => 3 + Creates <= MaxRows
  /\ ui' = [ui EXCEPT !.form = f]
  /\ Start(handleSubmit(mgr, IdleOp, ui'))
  /\ UNCHANGED << table, blobs, mgr >>
  /\ UNCHANGED << siteVars, auth >>

ClickToggleFeatured(row) ==
  /\ mgr \in {"videos", "events"}
  /\ Shown(row)
  /\ Start(toggleFeatured(mgr, IdleOp, row))
  /\ UNCHANGED << table, blobs, ui, mgr >>
  /\ UNCHANGED << siteVars, auth >>

ClickTogglePublished(row) ==
  /\ mgr \in {"videos", "events", "albums", "photos"}
  /\ Shown(row)
  /\ Start(togglePublished(IdleOp, row))
  /\ UNCHANGED << table, blobs, ui, mgr >>
  /\ UNCHANGED << siteVars, auth >>

\* The delete button of a row; confirmed is the answer to the dialog.
ClickDelete(row, confirmed) ==
  /\ Shown(row)
  /\ Start([handleDelete(mgr, IdleOp, row, confirmed) EXCEPT
              !.dialog = IF confirmed THEN "accepted" ELSE "declined"])
  /\ UNCHANGED << table, blobs, ui, mgr >>
  /\ UNCHANGED << siteVars, auth >>

\* PhotosManager.toggleSelectPhoto.
toggleSelectPhoto(row) ==
  /\ mgr = "photos"
  /\ Shown(row)
  /\ ui' = [ui EXCEPT !.selected =
              IF row.id \in @ THEN @ \ {row.id} ELSE @ \cup {row.id}]
  /\ UNCHANGED << table, blobs, ops, nops, mgr >>
  /\ UNCHANGED << siteVars, auth >>

\* The "delete selected" button, rendered while the selection is not empty.
ClickDeleteSelected(confirmed) ==
  /\ mgr = "photos"
  /\ configured
  /\ ~ui.loading
  /\ ui.selected # {}
  /\ Start([deleteSelected(IdleOp, ui, confirmed) EXCEPT
              !.dialog = IF confirmed THEN "accepted" ELSE "declined"])
  /\ UNCHANGED << table, blobs, ui, mgr >>
  /\ UNCHANGED << siteVars, auth >>

\* The visitor fills the contact form and submits it; the submit button
\* is disabled while a submit is in flight.
ContactSubmit(f) ==
  /\ mgr = "contact"
  /\ ~ui.loading
  /\ f \in ContactInputs
  /\ nops < MaxOps
  /\ LET r == contactSubmit([World EXCEPT !.ui.form = f], IdleOp)
     IN /\ ui' = r.w.ui
        /\ ops' = [ops EXCEPT ![nops + 1] = r.op]
  /\ nops' = nops + 1
  /\ UNCHANGED << table, blobs, mgr >>
  /\ UNCHANGED << siteVars, auth >>

\* onDropCover up to its await: a file that is no image or is over 5 MB is
\* turned down; the closure holds the form as rendered at the drop.
onDropCover(op, u, valid) ==
  LET o1 == [op EXCEPT !.h = "onDropCover", !.form = Some(u.form)]
  IN IF valid THEN Issue(o1, "upload") ELSE Finish(o1, "invalid")

\* ... and from the answer of the upload on: the form captured at the drop
\* is written back with the public url of the cover.
coverAnswered(w, op, net) ==
  IF net # "ok" THEN [w |-> w, op |-> Finish(op, "failed")]
  ELSE [ w |-> [w EXCEPT !.ui.form =
                  [op.form[1] EXCEPT !.cover_image_url = "cover"]],
         op |-> Finish(op, "ok") ]

\* What a handler does from the answer to its awaited request on.
Continue(op, net) ==
  CASE op.pc = "fetch" -> fetchAnswered(World, op, net)
    [] op.pc = "clear" -> clearAnswered(World, op, net)
    [] op.pc = "set" -> setAnswered(World, op, net)
    [] op.pc = "publish" -> publishAnswered(World, op, net)
    [] op.pc = "save" -> saveAnswered(mgr, World, op, ops, net)
    [] op.pc = "remove" -> removeAnswered(World, op, net)
    [] op.pc = "delete" -> deleteAnswered(World, op, net)
    [] op.pc = "insert" -> contactAnswered(World, op, net)
    [] op.pc = "upload" -> coverAnswered(World, op, net)

\* The backend answers the request an invocation waits for; a write takes
\* effect when it is answered without an error.
Answer(o, net) ==
  /\ InFlight(ops[o])
  /\ LET r == Continue(Answered(ops[o], net), net)
     IN /\ table' = r.w.table
        /\ blobs' = r.w.blobs
        /\ ui' = r.w.ui
        /\ ops' = [ops EXCEPT ![o] = r.op]
  /\ UNCHANGED << nops, mgr >>
  /\ UNCHANGED << siteVars, auth >>

AdminNext ==
  \/ openNewModal
  \/ \E row \in Listed : openEditModal(row)
  \/ CloseModal
  \/ \E f \in Typed : Submit(f)
  \/ \E row \in Listed : ClickToggleFeatured(row)
  \/ \E row \in Listed : ClickTogglePublished(row)
  \/ \E row \in Listed, c \in BOOLEAN : ClickDelete(row, c)
  \/ \E row \in Listed : toggleSelectPhoto(row)
  \/ \E c \in BOOLEAN : ClickDeleteSelected(c)
  \/ \E f \in ContactInputs : ContactSubmit(f)
  \/ \E o \in OpIds, net \in NetOutcomes : Answer(o, net)

AdminSpec == AdminInit /\ [][AdminNext]_vars

\* ---------------------------------------------- the modal and its cover
\* The create/edit modal of the Videos and Albums managers: its inputs and
\* the cover dropzone.  The list has been loaded.
CoverInit ==
  /\ configured = TRUE
  /\ settingsTable = AllSettingsRows
  /\ preloadedDataCache = Null
  /\ runs = [r \in RunIds |-> IdleRun]
  /\ nruns = 0
  /\ appMounted = TRUE
  /\ route = "other"
  /\ isLoading = TRUE
  /\ lsRun = 0
  /\ isAnimationReady = FALSE
  /\ who = "settings"
  /\ con = UnmountedConsumer
  /\ auth = SignedIn
  /\ mgr \in {"videos", "albums"}
  /\ table \in InitialTables(mgr)
  /\ blobs = { r.id : r \in { x \in table : x.storage_path } }
  /\ nops = 1
  /\ LET r0 == fetchList([table |-> table, blobs |-> blobs, ui |-> InitialUi],
                         [IdleOp EXCEPT !.h = "mount"])
         r == fetchAnswered(r0.w, Answered(r0.op, "ok"), "ok")
     IN /\ ui = r.w.ui
        /\ ops = [o \in OpIds |-> IF o = 1 THEN r.op ELSE IdleOp]

\* The onChange handlers of the modal's inputs: setFormData({...formData,
\* field: value}); the cover is not one of these inputs.
TypeForm(f) ==
  /\ HasForm
  /\ ui.showModal
  /\ f \in FormInputs(mgr)
  /\ ui' = [ui EXCEPT !.form = [f EXCEPT !.cover_image_url = ui.form.cover_image_url]]
  /\ ui' # ui
  /\ UNCHANGED << table, blobs, ops, nops, mgr >>
  /\ UNCHANGED << siteVars, auth >>

\* The remove button of the cover preview.
RemoveCover ==
  /\ HasForm
  /\ ui.showModal
  /\ ui.form.cover_image_url # ""
  /\ ui' = [ui EXCEPT !.form.cover_image_url = ""]
  /\ UNCHANGED << table, blobs, ops, nops, mgr >>
  /\ UNCHANGED << siteVars, auth >>

\* A file is dropped on the cover dropzone.
DropCover(valid) ==
  /\ HasForm
  /\ ui.showModal
  /\ Start(onDropCover(IdleOp, ui, valid))
  /\ UNCHANGED << table, blobs, ui, mgr >>
  /\ UNCHANGED << siteVars, auth >>

\* The modal is an overlay on the list: the buttons that open it are out
\* of reach while it is shown.
CoverNext ==
  \/ (~ui.showModal /\ openNewModal)
  \/ \E row \in Listed : (~ui.showModal /\ openEditModal(row))
  \/ CloseModal
  \/ \E f \in Typed : TypeForm(f)
  \/ RemoveCover
  \/ \E valid \in BOOLEAN : DropCover(valid)
  \/ \E o \in OpIds, net \in NetOutcomes : Answer(o, net)

CoverSpec == CoverInit /\ [][CoverNext]_vars

\* ------------------------------------------------------ settings manager
\* Change events of the settings form followed per behaviour.
MaxEdits == 3

\* The fields followed: a text input and the two selects.
SFields == {"hero_title", "location_state", "location_city"}

defaultSettings == [f \in SFields |-> ""]

\* site_settings as the manager may find it: no rows, or a row per field.
StoredSettings ==
  { defaultSettings,
    [f \in SFields |->
       CASE f = "hero_title" -> "x"
         [] f = "location_state" -> "A"
         [] f = "location_city" -> "a1"] }

\* Answer of the geographic API for a state: its cities, sorted.
CitiesOf(s) ==
  CASE s = "A" -> {"a1"}
    [] s = "B" -> {"b1"}
    [] OTHER -> {}

\* fetchCitiesByState: a failure is mapped to the empty list.
fetchCitiesByState(s, net) == IF net = "ok" THEN CitiesOf(s) ELSE {}

\* useState initial values of SettingsManager; timer is saveTimeoutRef.
\* edited, saveFailed and citiesFailed note which fields had a change event
\* and whether an upsert or a city request failed.
InitialSettingsUi ==
  [ settings |-> defaultSettings, loading |-> TRUE, timer |-> Null,
    cities |-> {}, citiesLoading |-> FALSE, edited |-> {},
    saveFailed |-> FALSE, citiesFailed |-> FALSE ]

\* A request in flight.
Request(kind, id, key, value) ==
  [kind |-> kind, id |-> id, key |-> key, value |-> value]

\* fetchSettings up to its await.
fetchSettings(u) ==
  IF ~configured THEN [ui |-> [u EXCEPT !.loading = FALSE], reqs |-> {}]
  ELSE [ui |-> u, reqs |-> {Request("fetch", 0, "", "")}]

\* loadCitiesForState up to its await.
loadCitiesForState(u, stateSigla, id) ==
  IF stateSigla = "" THEN [ui |-> [u EXCEPT !.cities = {}], reqs |-> {}]
  ELSE [ ui |-> [u EXCEPT !.citiesLoading = TRUE],
         reqs |-> {Request("cities", id, "", stateSigla)} ]

\* handleSettingChange: the one pending timer is cleared and a new one is
\* set for this field and value.
handleSettingChange(u, field, value, id) ==
  LET u1 == [u EXCEPT !.settings[field] = value, !.edited = @ \cup {field}]
      r == IF field = "location_state"
             THEN loadCitiesForState(u1, value, id)
             ELSE [ui |-> u1, reqs |-> {}]
  IN [ ui |-> [r.ui EXCEPT !.timer = Some(<< field, value >>)],
       reqs |-> r.reqs ]

\* saveSetting up to its await.
saveSetting(key, value, id) ==
  IF ~configured THEN {} ELSE {Request("save", id, key, value)}

SettingsInit ==
  /\ configured \in BOOLEAN
  /\ settingsTable = AllSettingsRows
  /\ preloadedDataCache = Null
  /\ runs = [r \in RunIds |-> IdleRun]
  /\ nruns = 0
  /\ appMounted = TRUE
  /\ route = "other"
  /\ isLoading = TRUE
  /\ lsRun = 0
  /\ isAnimationReady = FALSE
  /\ who = "settings"
  /\ con = UnmountedConsumer
  /\ auth = SignedIn
  /\ mgr = "settings"
  /\ table \in StoredSettings
  /\ blobs = {}
  /\ nops = 0
  /\ LET r == fetchSettings(InitialSettingsUi)
     IN ui = r.ui /\ ops = r.reqs

\* The form is rendered.
SettingsShown == configured /\ ~ui.loading

\* The mount read of site_settings is answered.
SettingsFetched(net) ==
  /\ \E q \in ops :
       /\ q.kind = "fetch"
       /\ ops' = ops \ {q}
  /\ ui' = [ui EXCEPT !.loading = FALSE,
                      !.settings = IF net = "ok" THEN table ELSE @]
  /\ UNCHANGED << mgr, table, blobs, nops >>
  /\ UNCHANGED << siteVars, auth >>

\* onChange of a text input.
ChangeText(v) ==
  /\ SettingsShown
  /\ nops < MaxEdits
  /\ v # ui.settings["hero_title"]
  /\ nops' = nops + 1
  /\ LET r == handleSettingChange(ui, "hero_title", v, nops')
     IN ui' = r.ui /\ ops' = ops \cup r.reqs
  /\ UNCHANGED << mgr, table, blobs >>
  /\ UNCHANGED << siteVars, auth >>

\* onChange of the state select: the state is changed and the city reset
\* in the same event.
ChangeState(v) ==
  /\ SettingsShown
  /\ nops < MaxEdits
  /\ v # ui.settings["location_state"]
  /\ nops' = nops + 1
  /\ LET r1 == handleSettingChange(ui, "location_state", v, nops')
         r2 == handleSettingChange(r1.ui, "location_city", "", nops')
     IN ui' = r2.ui /\ ops' = ops \cup r1.reqs \cup r2.reqs
  /\ UNCHANGED << mgr, table, blobs >>
  /\ UNCHANGED << siteVars, auth >>

\* onChange of the city select, disabled without a state and while the
\* cities load; its options are the loaded cities.
ChangeCity(v) ==
  /\ SettingsShown
  /\ nops < MaxEdits
  /\ ui.settings["location_state"] # ""
  /\ ~ui.citiesLoading
  /\ v \in ui.cities \cup {""}
  /\ v # ui.settings["location_city"]
  /\ nops' = nops + 1
  /\ LET r == handleSettingChange(ui, "location_city", v, nops')
     IN ui' = r.ui /\ ops' = ops \cup r.reqs
  /\ UNCHANGED << mgr, table, blobs >>
  /\ UNCHANGED << siteVars, auth >>

\* The autosave timer fires one second after the last change.
TimerFire ==
  /\ ~IsNull(ui.timer)
  /\ ui' = [ui EXCEPT !.timer = Null]
  /\ ops' = ops \cup saveSetting(ui.timer[1][1], ui.timer[1][2], nops + 10)
  /\ UNCHANGED << mgr, table, blobs, nops >>
  /\ UNCHANGED << siteVars, auth >>

\* An upsert is answered; it is applied when answered without an error.
SaveAnswered(q, net) ==
  /\ q \in ops
  /\ q.kind = "save"
  /\ ops' = ops \ {q}
  /\ table' = IF net = "ok" THEN [table EXCEPT ![q.key] = q.value] ELSE table
  /\ ui' = [ui EXCEPT !.saveFailed = @ \/ net # "ok"]
  /\ UNCHANGED << mgr, blobs, nops >>
  /\ UNCHANGED << siteVars, auth >>

\* A city request is answered: the rest of loadCitiesForState.
CitiesAnswered(q, net) ==
  /\ q \in ops
  /\ q.kind = "cities"
  /\ ops' = ops \ {q}
  /\ ui' = [ui EXCEPT !.cities = fetchCitiesByState(q.value, net),
                      !.citiesLoading = FALSE,
                      !.citiesFailed = @ \/ net # "ok"]
  /\ UNCHANGED << mgr, table, blobs, nops >>
  /\ UNCHANGED << siteVars, auth >>

Requests == IF mgr = "settings" THEN ops ELSE {}

SettingsNext ==
  \/ \E net \in {"ok", "error"} : SettingsFetched(net)
  \/ \E v \in {"x", "y"} : ChangeText(v)
  \/ \E v \in {"", "A", "B"} : ChangeState(v)
  \/ \E v \in {"", "a1", "b1"} : ChangeCity(v)
  \/ TimerFire
  \/ \E q \in Requests, net \in {"ok", "error"} : SaveAnswered(q, net)
  \/ \E q \in Requests, net \in {"ok", "error"} : CitiesAnswered(q, net)

\* Every request is answered and an armed timer fires unless it is cleared.
SettingsSpec ==
  /\ SettingsInit
  /\ [][SettingsNext]_vars
  /\ WF_vars(\E net \in {"ok", "error"} : SettingsFetched(net))
  /\ WF_vars(TimerFire)
  /\ WF_vars(\E q \in Requests, net \in {"ok", "error"} : SaveAnswered(q, net))
  /\ WF_vars(\E q \in Requests, net \in {"ok", "error"} : CitiesAnswered(q, net))

\* ------------------------------------------------------------- properties
Started(r) == runs[r].pc # "idle"
Completed(r) == runs[r].pc = "done"
Range(s) == { s[i] : i \in 1..Len(s) }
Returned(r, f) == ("resp_" \o f) \in Range(runs[r].log)
Wrote(r) == "write" \in Range(runs[r].log)
AllReturned(r) == \A f \in Fields : Returned(r, f)

\* C1: within one run every emitted progress value is in 0..100, no value
\* is smaller than the one before it, and a completed run's last value is
\* 100, for every outcome of the font wait, the reads and the images and
\* on the path through the outer catch.
C1_ProgressMonotoneTo100 ==
  \A r \in RunIds :
    LET p == runs[r].progress
    IN /\ \A i \in 1..Len(p) : p[i] \in 0..100
       /\ \A i \in 1..(Len(p) - 1) : p[i] <= p[i + 1]
       /\ Completed(r) => Last(p) = 100

\* A run whose four reads all failed and that ended in the outer catch.
C1_Witness ==
  \E r \in RunIds :
    /\ Completed(r)
    /\ runs[r].net = << "fail", "fail", "fail", "fail" >>
    /\ runs[r].progress = << 5, 15, 20, 25, 35, 50, 60, 70, 75, 100 >>

\* C2: every run that has started eventually emits progress 100 and is
\* then complete, whichever of its fallible operations fail.
C2_EveryRunReaches100 ==
  \A r \in RunIds :
    Started(r) ~> (Completed(r) /\ Last(runs[r].progress) = 100)

\* A run that completed on the normal path although every read failed.
C2_Witness ==
  \E r \in RunIds :
    /\ Completed(r)
    /\ runs[r].net = << "fail", "fail", "fail", "fail" >>
    /\ runs[r].progress = << 5, 15, 20, 25, 35, 50, 60, 70, 75, 90, 95, 100 >>

\* C3 as claimed: the slot is null as long as no run has completed, and
\* holds a bundle once a run that read from a configured backend has
\* completed.
C3_AbsentUntilCompletion ==
  /\ (\A r \in RunIds : ~Completed(r)) => IsNull(getPreloadedData)
  /\ (configured /\ \E r \in RunIds : Completed(r) /\ AllReturned(r))
       => ~IsNull(getPreloadedData)

\* C3 amended: the slot is null until the events read of some run has
\* returned (the store precedes progress 70 of that run), and holds a
\* bundle at every moment from then on.
C3_AbsentUntilStore ==
  LET stored == \E r \in RunIds : Returned(r, "events")
  IN /\ ~stored => IsNull(getPreloadedData)
     /\ stored => ~IsNull(getPreloadedData)
     /\ (configured /\ \E r \in RunIds : Completed(r) /\ AllReturned(r))
          => ~IsNull(getPreloadedData)

\* The slot is populated while the run that stored it is still warming
\* images and no run that stored has completed.
C3_Witness ==
  /\ ~IsNull(getPreloadedData)
  /\ \E r \in RunIds : runs[r].pc = "images" /\ Wrote(r)
  /\ \A r \in RunIds : Wrote(r) => ~Completed(r)

\* C4: the slot is null or holds the four results of one run all of whose
\* reads have returned; never a bundle with reads of that run outstanding.
C4_BundleIsComplete ==
  \/ IsNull(getPreloadedData)
  \/ \E r \in RunIds :
       /\ AllReturned(r)
       /\ getPreloadedData[1] = Bundle(runs[r])

\* The slot holds a bundle while another run is in the middle of its reads.
C4_Witness ==
  /\ ~IsNull(getPreloadedData)
  /\ \E r \in RunIds : runs[r].pc = "videos"

\* C5 as claimed: once populated, the slot never changes again.
C5_SlotWrittenOnce ==
  [][IsNull(preloadedDataCache) \/ preloadedDataCache' = preloadedDataCache]_vars

\* C6 as claimed: no consumer calls getPreloadedData() before the store.
C6_NoReadBeforeStore == con.cached # "null"

\* C6 amended: a consumer that calls getPreloadedData() before the store
\* gets null and issues its own backend read; a consumer that took its
\* data from the slot did so after the store, and shows the stored field.
C6_ReadBeforeStoreFetches ==
  /\ con.cached = "null" => con.src = "fetch" /\ con.requested
  /\ con.src = "cache" =>
       /\ ~IsNull(getPreloadedData)
       /\ \E r \in RunIds :
            /\ Wrote(r)
            /\ con.data = CachedField(who, Some(Bundle(runs[r])))

\* A consumer that read null at mount is waiting for its own read while the
\* coordinator has stored the bundle in the meantime.
C6_Witness ==
  /\ con.cached = "null"
  /\ con.inflight
  /\ ~IsNull(getPreloadedData)

\* A consumer mounted after the store and served from the slot.
C6_WitnessCached == con.src = "cache" /\ con.mounted

\* C7: with the backend unconfigured no run issues a table read or an image
\* request, the slot stays null, and a completed run ended with 100.
C7_OfflineNoRequests ==
  ~configured =>
    /\ IsNull(getPreloadedData)
    /\ \A r \in RunIds :
         /\ runs[r].log = <<>>
         /\ Completed(r) => Last(runs[r].progress) = 100

\* An unconfigured run that completed on the normal path.
C7_Witness ==
  /\ ~configured
  /\ \E r \in RunIds :
       /\ Completed(r)
       /\ runs[r].progress = << 5, 15, 70, 75, 90, 95, 100 >>

\* The only order of requests, answers and store a run may show.
C8_Canon ==
  << "req_settings", "resp_settings", "req_photos", "resp_photos",
     "req_videos", "resp_videos", "req_events", "resp_events", "write" >>

\* C8: the reads of a run are issued in the order settings, photos, videos,
\* events, each after the answer to the previous one (so at most one is in
\* flight), the store follows the events answer, and image requests come
\* only after the store.
C8_ReadsSequential ==
  \A r \in RunIds :
    \A i \in 1..Len(runs[r].log) :
      IF i <= Len(C8_Canon) THEN runs[r].log[i] = C8_Canon[i]
      ELSE runs[r].log[i] = "img"

\* A run that has issued an image request after its four reads and store.
C8_Witness ==
  \E r \in RunIds : Len(runs[r].log) > Len(C8_Canon)

\* What a run stores according to the outcomes of its reads: the rows the
\* backend returned for a read that succeeded, empty for one that failed.
C9_Expected(r) ==
  LET n == runs[r].net
  IN [ settings |-> IF n[1] = "ok" /\ Len(settingsTable) = 1
                      THEN Some(settingsTable[1]) ELSE Null,
       photos |-> IF n[2] = "ok" THEN Take(PhotosTable, PhotoLimit) ELSE <<>>,
       videos |-> IF n[3] = "ok" THEN Take(VideosTable, VideoLimit) ELSE <<>>,
       events |-> IF n[4] = "ok" THEN Take(EventsTable, EventLimit) ELSE <<>> ]

C10_FullSuccessStoresAllRows ==
  ( /\ ~IsNull(getPreloadedData)
    /\ Len(settingsTable) >= 2
    /\ \A r \in RunIds : Range(runs[r].net) \subseteq {"ok"} )
  => LET b == getPreloadedData[1]
     IN /\ \A i \in 1..Len(settingsTable) :
             \E j \in 1..Len(b.settings) :
               /\ b.settings[j].key = settingsTable[i].key
               /\ b.settings[j].value = settingsTable[i].value
        /\ b.photos = Take(PhotosTable, PhotoLimit)
        /\ b.videos = Take(VideosTable, VideoLimit)
        /\ b.events = Take(EventsTable, EventLimit)

\* A step that mounts the observed consumer while the slot holds a
\* non-empty value for its field.
C11_MountsOnHit ==
  /\ configured
  /\ ~con.mounted
  /\ con'.mounted
  /\ CacheHit(who, preloadedDataCache)

Featured(t) == { r \in t : r.is_featured }
Asked(op, req) == ("req_" \o req) \in Range(op.log)
Got(op, req) == ("resp_" \o req) \in Range(op.log)
UserOps == { o \in OpIds : ops[o].h \notin {"none", "mount"} }

\* C12 as claimed: two toggleFeatured invocations on two different videos,
\* started while none is featured and overlapping in time, leave at most
\* one featured video once their four writes have been answered.
C12_ConcurrentTogglesLeaveOne ==
  \A a, b \in OpIds :
    ( /\ mgr = "videos"
      /\ a # b
      /\ ops[a].h = "toggleFeatured" /\ ops[b].h = "toggleFeatured"
      /\ ops[a].conc /\ ops[b].conc
      /\ ~ops[a].arg[1].is_featured /\ ~ops[b].arg[1].is_featured
      /\ ops[a].arg[1].id # ops[b].arg[1].id
      /\ Got(ops[a], "set") /\ Got(ops[b], "set")
      /\ SubSeq(ops[a].net, 1, 2) = << "ok", "ok" >>
      /\ SubSeq(ops[b].net, 1, 2) = << "ok", "ok" >> )
    => Cardinality(Featured(table)) <= 1

\* The requests of a toggleFeatured on a row that is not featured.
C13_Canon ==
  << "req_clear", "resp_clear", "req_set", "resp_set", "req_fetch",
     "resp_fetch" >>

\* C13 as claimed: toggleFeatured on a video that is not featured, run
\* alone from a table with at most one featured video, issues the set
\* write after the answer to the clear write and leaves at most one
\* featured video for every outcome of the two writes.
C13_ToggleAloneLeavesOne ==
  ( /\ mgr = "videos"
    /\ nops = 2
    /\ ops[2].h = "toggleFeatured"
    /\ ~ops[2].arg[1].is_featured )
  => /\ ops[2].log = SubSeq(C13_Canon, 1, Len(ops[2].log))
     /\ ops[2].pc = "done" => Cardinality(Featured(table)) <= 1

\* C14 as claimed: when the admin operations on videos run one at a time
\* and every request succeeds, at most one video is featured whenever no
\* operation is in progress.
C14_AtMostOneFeatured ==
  ( /\ mgr = "videos"
    /\ \A o \in OpIds :
         /\ ~ops[o].conc
         /\ ~InFlight(ops[o])
         /\ Range(ops[o].net) \subseteq {"ok"} )
  => Cardinality(Featured(table)) <= 1

\* The submits the claim calls invalid, in the claim's words.
C15_FailsValidation(m, f) ==
  CASE m = "videos" ->
         \/ Trim(f.title) = ""
         \/ (f.video_type \in {"youtube", "vimeo"} /\ f.external_id = "")
    [] m = "events" -> Trim(f.title) = "" \/ f.event_date = ""
    [] m = "contact" ->
         \/ f.name = "" \/ f.email = "" \/ f.message = ""
         \/ f.email \notin {"a@b.c"}
    [] OTHER -> FALSE

C16_RejectedSaveChangesNothing ==
  [][ \A o \in OpIds :
        ( /\ mgr \in {"videos", "events", "albums"}
          /\ ops[o].pc = "save"
          /\ ops'[o].pc # "save"
          /\ Last(ops'[o].net) = "fail" )
        => /\ ui' = ui
           /\ table' = table
           /\ ops'[o].pc = "done"
           /\ ~Asked(ops'[o], "fetch") ]_vars

\* The update of an edited record was rejected: the modal is still open on
\* that record with the submitted form.
C16_Witness ==
  /\ mgr \in {"videos", "events", "albums"}
  /\ \E o \in OpIds :
       /\ ops[o].h = "handleSubmit"
       /\ ops[o].res = "rejected"
       /\ ~IsNull(ops[o].editing)
       /\ ui.showModal
       /\ ui.editing = ops[o].editing
       /\ ui.form = ops[o].form[1]
       /\ ui.list # {}

\* C17: a delete handler issues a storage removal or a row delete only
\* when its confirmation dialog was accepted; a declined dialog leaves the
\* table, the bucket and the manager's state as they were.
C17_NoDeleteWithoutConfirm ==
  [][ \A o \in OpIds :
        /\ (Asked(ops'[o], "remove") \/ Asked(ops'[o], "delete"))
             => ops'[o].dialog = "accepted"
        /\ (ops[o].pc = "idle" /\ ops'[o].dialog = "declined")
             => /\ ops'[o].pc = "done"
                /\ ops'[o].log = <<>>
                /\ table' = table /\ blobs' = blobs /\ ui' = ui ]_vars

\* A declined delete of a row with a blob, and an accepted one that
\* removed blob and row.
C17_Witness ==
  \E a, b \in OpIds :
    /\ ops[a].h \in {"handleDelete", "deleteSelected"}
    /\ ops[a].dialog = "declined" /\ ops[a].pc = "done"
    /\ ops[a].paths = {} /\ ops[a].arg # Null
    /\ ops[a].arg[1].storage_path
    /\ ops[a].arg[1].id \in Ids(table) /\ ops[a].arg[1].id \in blobs
    /\ ops[b].dialog = "accepted"
    /\ Got(ops[b], "remove") /\ Got(ops[b], "delete")

\* The requests of a delete of a row that has a blob.
C18_Canon ==
  << "req_remove", "resp_remove", "req_delete", "resp_delete", "req_fetch",
     "resp_fetch" >>

\* C18: when a confirmed photo delete had its blob removal fail and its row
\* delete succeed, the row is in no list read answered from then on (the
\* manager's refresh is issued and, when answered, shows the list without
\* it), the handler has asked for the removal only once, and the blob stays
\* in the bucket as long as no other delete of that photo was started.
C18_RowGoneBlobLeft ==
  \A o \in OpIds :
    ( /\ mgr = "photos"
      /\ ops[o].h = "handleDelete"
      /\ Got(ops[o], "delete")
      /\ SubSeq(ops[o].net, 1, 2) = << "fail", "ok" >> )
    => LET id == ops[o].arg[1].id
       IN /\ id \notin Ids(table)
          /\ ops[o].log = SubSeq(C18_Canon, 1, Len(ops[o].log))
          /\ Asked(ops[o], "fetch")
          /\ ops[o].res = "ok" => id \notin Ids(ui.list)
          /\ (\A q \in OpIds \ {o} : id \notin ops[q].paths) => id \in blobs

\* The refresh of such a delete has been answered: the photo is not listed
\* and its blob is still in the bucket.
C18_Witness ==
  /\ mgr = "photos"
  /\ \E o \in OpIds :
       /\ ops[o].h = "handleDelete"
       /\ ops[o].net = << "fail", "ok", "ok" >>
       /\ ops[o].arg[1].id \notin Ids(ui.list)
       /\ ops[o].arg[1].id \notin Ids(table)
       /\ ops[o].arg[1].id \in blobs
       /\ ui.list # {}

C20_GateHolds ==
  /\ auth.view = "Admin" => ~IsNull(auth.user) /\ ~auth.loading
  /\ (auth.path = "/admin" /\ ~auth.loading) =>
       ~IsNull(auth.user) /\ auth.view = "Admin"
  /\ (auth.path = "/login" /\ ~auth.loading) =>
       IsNull(auth.user) /\ auth.view = "LoginForm"

C20_GateMoves ==
  /\ (auth.view = "Admin" /\ IsNull(auth'.user)) =>
       auth'.path = "/login" /\ auth'.view = "LoginForm"
  /\ (auth.view = "LoginForm" /\ ~IsNull(auth'.user)) =>
       auth'.path = "/admin" /\ auth'.view = "Admin"

C20_AdminOnlyWithUser == [] C20_GateHolds /\ [][C20_GateMoves]_vars

\* A sign-in from the login form has been answered with a session and the
\* page has moved to the Admin component.
C20_Witness ==
  /\ auth.view = "Admin"
  /\ auth.path = "/admin"
  /\ ~IsNull(auth.user)
  /\ auth.pending = "none"
  /\ auth.session
  /\ ~auth.loading

\* ------------------------------------------------- image warming: properties
C22_Step ==
  \A r \in RunIds :
    (runs[r].pc = "images" /\ runs'[r] # runs[r]) =>
      /\ preloadedDataCache' = preloadedDataCache
      /\ runs'[r].pc \in {"images", "settle"}
      /\ runs'[r].progress =
           IF runs'[r].pc = "settle"
             THEN runs[r].progress \o << 90, 95 >> ELSE runs[r].progress

C22_After ==
  \A r \in RunIds :
    ("img" \in Range(runs[r].log) /\ runs[r].pc \in {"settle", "done"}) =>
      LET p == runs[r].progress
          n == IF runs[r].pc = "done" THEN Len(p) - 1 ELSE Len(p)
      IN /\ SubSeq(p, n - 2, n) = << 75, 90, 95 >>
         /\ runs[r].pc = "done" => Last(p) = 100

\* C22: a run that has issued its image requests emits progress 90 whatever
\* each request does (onload, onerror, or nothing until its timeout); the
\* settling of a request leaves the cache slot alone, and the values the run
\* emits from then on are 90, 95 and 100 for every outcome.
C22_ImagesNeverBlock ==
  /\ \A r \in RunIds :
       (runs[r].pc = "images") ~> (90 \in Range(runs[r].progress))
  /\ [][C22_Step]_vars
  /\ [] C22_After

\* A run asked for the three critical images of the stored bundle and went
\* on to the end.
C22_Witness ==
  \E r \in RunIds :
    /\ Completed(r)
    /\ Cardinality({ i \in 1..Len(runs[r].log) : runs[r].log[i] = "img" }) = 3
    /\ ~IsNull(preloadedDataCache)
    /\ SubSeq(runs[r].progress, Len(runs[r].progress) - 3,
              Len(runs[r].progress)) = << 75, 90, 95, 100 >>

\* ------------------------------------------------ loading screen: properties
\* C23: onLoadComplete is called (isLoading goes to false) only by the
\* mounted loading screen, on the home route, after its run has emitted 100
\* and with the animation-ready flag true; the screen that called it is gone
\* with the call, so it calls once; a screen unmounted by a route change
\* makes no call; and once isLoading is false it stays false, no loading
\* screen is mounted and no further run starts.
C23_Step ==
  /\ (isLoading /\ ~isLoading') =>
       /\ lsRun # 0 /\ lsRun' = 0
       /\ route = "home" /\ route' = route
       /\ Completed(lsRun)
       /\ Last(runs[lsRun].progress) = 100
       /\ isAnimationReady
  /\ (lsRun # 0 /\ lsRun' = 0 /\ route' # route) => isLoading' = isLoading
  /\ ~isLoading => /\ ~isLoading'
                   /\ lsRun' = 0
                   /\ nruns' = nruns

C23_Shown == lsRun # 0 => (isLoading /\ route = "home" /\ Started(lsRun))

C23_CompleteOnceWhenReady == [][C23_Step]_vars /\ [] C23_Shown

\* The first loading screen was unmounted by a route change and made no
\* call; the second one called onLoadComplete, and the home page has been
\* left and entered again since without a loading screen.
C23_Witness ==
  /\ ~isLoading
  /\ nruns = 2
  /\ Completed(1) /\ Completed(2)
  /\ isAnimationReady
  /\ route = "home"
  /\ lsRun = 0
  /\ con.mounted

\* --------------------------------------------- settings manager: properties
\* C24: once the change events have stopped, every field that had one holds
\* in the backend the value the form shows for it (the last one entered),
\* provided no upsert was rejected.
C24_EditsAreSaved ==
  \A f \in SFields :
    <>[]( (mgr = "settings" /\ f \in ui.edited /\ ~ui.saveFailed)
            => table[f] = ui.settings[f] )

CityRequests == { q \in Requests : q.kind = "cities" }

\* C25: with the state chosen through the select and no city request
\* failed, citiesLoading is true exactly while a city request is in flight,
\* and with none in flight the city list is that of the selected state.
C25_CitiesFollowState ==
  ( /\ mgr = "settings"
    /\ "location_state" \in ui.edited
    /\ ~ui.citiesFailed )
  => /\ ui.citiesLoading <=> CityRequests # {}
     /\ CityRequests = {} =>
          ui.cities = CitiesOf(ui.settings["location_state"])

\* ----------------------------------------------------- modal: properties
\* C26: the step in which a cover upload completes changes no field of the
\* form but cover_image_url.
C26_UploadKeepsEdits ==
  [][ \A o \in OpIds :
        (ops[o].pc = "upload" /\ ops'[o].pc = "done") =>
          ui'.form = [ui.form EXCEPT
                        !.cover_image_url = ui'.form.cover_image_url] ]_vars

\* ------------------------------------------------------ photos: properties
\* C27: in the photos manager, when every action started has completed
\* with its requests and its refresh answered without error, the selected
\* ids are ids of photos in the displayed list (so a deleted photo is not
\* selected and not counted by the bulk-delete button).
C27_SelectionWithinList ==
  ( /\ mgr = "photos"
    /\ \A o \in OpIds :
         /\ ~InFlight(ops[o])
         /\ Range(ops[o].net) \subseteq {"ok"} )
  => ui.selected \subseteq Ids(ui.list)

\* ------------------------------------------------ contact form: properties
\* The submit that ends in this step, if any.
C28_Ends(o) ==
  /\ mgr = "contact"
  /\ ops[o].pc # "done"
  /\ ops'[o].pc = "done"
  /\ ops'[o].h = "contactSubmit"

C28_Inserted(o) ==
  /\ Got(ops'[o], "insert")
  /\ Last(ops'[o].net) = "ok"
  /\ ops'[o].form[1] \in table'

C28_Kept(o) ==
  /\ ui'.status = "error"
  /\ ui'.form = ops'[o].form[1]
  /\ table' = table

\* C28 as claimed: a submit that ends in 'success' has inserted its row;
\* any other end keeps the form and shows 'error'.
C28_SuccessMeansInserted ==
  [][ \A o \in OpIds :
        C28_Ends(o) =>
          IF ui'.status = "success"
            THEN ui'.form = initialContactForm /\ C28_Inserted(o)
            ELSE C28_Kept(o) ]_vars

\* C28 amended: with the backend configured a submit that ends in 'success'
\* has inserted its row; with the backend not configured a submit that
\* passes the validation ends in 'success' and clears the form without any
\* request; any other end keeps the form and shows 'error'.
C28_SuccessMeansInsertedIfConfigured ==
  [][ \A o \in OpIds :
        C28_Ends(o) =>
          IF ui'.status = "success"
            THEN /\ ui'.form = initialContactForm
                 /\ IF configured THEN C28_Inserted(o)
                    ELSE ops'[o].log = <<>> /\ table' = table
            ELSE C28_Kept(o) ]_vars

\* A submit was rejected by the backend and the next one was inserted.
C28_Witness ==
  /\ mgr = "contact"
  /\ configured
  /\ ui.status = "success"
  /\ ui.form = initialContactForm
  /\ \E a, b \in OpIds :
       /\ ops[a].res = "rejected"
       /\ ops[b].res = "ok"
       /\ ops[b].form[1] \in table

\* -------------------------------------------- publish toggle: properties
\* The only handlers invoked since the mount are two togglePublished on the
\* row with this id, both ended, and both of their writes succeeded.
C30_TwoToggles(i) ==
  \E a, b \in OpIds :
    /\ a < b
    /\ nops = 3
    /\ \A o \in {a, b} :
         /\ ops[o].h = "togglePublished"
         /\ ops[o].arg[1].id = i
         /\ ops[o].pc = "done"
         /\ Len(ops[o].net) >= 1
         /\ ops[o].net[1] = "ok"

\* C30: two toggle-published actions on the same row, both written, leave
\* the row's is_published flag at its original value (every row of
\* InitialTables starts published), also when the second click comes before
\* the refresh of the first.
C30_TwoTogglesRestore ==
  \A i \in 1..2 :
    (mgr \in Managers /\ C30_TwoToggles(i))
      => \A r \in table : r.id = i => r.is_published

\* ------------------------------------ a section and the rows it displays
\* Largest number of published rows of a content table considered.
MaxPublished == 13

\* The home sections that list a content table.
Sections == {"photos", "videos", "events"}

\* `.limit(n)` of the preloader's read of each table.
LimitOf(c) ==
  CASE c = "photos" -> PhotoLimit
    [] c = "videos" -> VideoLimit
    [] c = "events" -> EventLimit

\* A content table in the order of the ORDER BY clause, which the
\* preloader's read and the section's own read of a table share: n
\* published rows, after a hidden one when hidden is set.
ContentTable(n, hidden) ==
  LET len == IF hidden THEN n + 1 ELSE n
  IN [ i \in 1..len |-> [id |-> i, is_published |-> ~(hidden /\ i = 1)] ]

IsPublished(row) == row.is_published

\* `.eq('is_published', true)` with the ORDER BY.
PublishedRows(rows) == SelectSeq(rows, IsPublished)

\* preloadPhotos / preloadVideos / preloadEvents on a table.
preloadRows(c, rows, net) ==
  IF net = "throw" THEN <<>>
  ELSE OrEmpty(ListResponse(PublishedRows(rows), LimitOf(c), net).data)

\* The read of fetchGallery / fetchVideos / fetchEvents: the same filter
\* and order, no limit clause.
ownQuery(rows) == PublishedRows(rows)

\* The Home page with one section, before the preloader has stored its
\* bundle; table holds the rows of the section's table.
SectionInit ==
  /\ configured = TRUE
  /\ settingsTable = AllSettingsRows
  /\ preloadedDataCache = Null
  /\ runs = [r \in RunIds |-> IdleRun]
  /\ nruns = 0
  /\ appMounted = TRUE
  /\ route = "home"
  /\ isLoading = TRUE
  /\ lsRun = 0
  /\ isAnimationReady = FALSE
  /\ who \in Sections
  /\ con = UnmountedConsumer
  /\ auth = <<>>
  /\ mgr = "section"
  /\ \E n \in 0..MaxPublished, hidden \in BOOLEAN : table = ContentTable(n, hidden)
  /\ blobs = {}
  /\ nops = 0
  /\ ui = <<>>
  /\ ops = <<>>

\* The preloader's reads have returned and the bundle is stored (line 64);
\* a section reads its own field of it only.
StoreBundle(net) ==
  /\ IsNull(preloadedDataCache)
  /\ preloadedDataCache' =
       Some([ settings |-> Null,
              photos |-> IF who = "photos" THEN preloadRows(who, table, net) ELSE <<>>,
              videos |-> IF who = "videos" THEN preloadRows(who, table, net) ELSE <<>>,
              events |-> IF who = "events" THEN preloadRows(who, table, net) ELSE <<>> ])
  /\ UNCHANGED << configured, settingsTable, runs, nruns, appMounted, route,
                  isLoading, lsRun, isAnimationReady, who, con >>
  /\ UNCHANGED adminVars

\* The section is mounted: its effect runs the fetch function.
SectionMount ==
  /\ route = "home"
  /\ ~con.mounted
  /\ con' = FetchOnMount(who, preloadedDataCache)
  /\ UNCHANGED << configured, settingsTable, preloadedDataCache, runs, nruns,
                  appMounted, route, isLoading, lsRun, isAnimationReady, who >>
  /\ UNCHANGED adminVars

\* The section's own read returns.
SectionFetchReturn(net) ==
  /\ con.inflight
  /\ con' = [con EXCEPT !.inflight = FALSE, !.loading = FALSE,
                        !.data = IF net = "ok" THEN ownQuery(table) ELSE @]
  /\ UNCHANGED << configured, settingsTable, preloadedDataCache, runs, nruns,
                  appMounted, route, isLoading, lsRun, isAnimationReady, who >>
  /\ UNCHANGED adminVars

\* Leaving the Home page unmounts the section; coming back mounts a new one.
SectionNavigate(to) ==
  /\ route # to
  /\ route' = to
  /\ con' = UnmountedConsumer
  /\ UNCHANGED << configured, settingsTable, preloadedDataCache, runs, nruns,
                  appMounted, isLoading, lsRun, isAnimationReady, who >>
  /\ UNCHANGED adminVars

SectionNext ==
  \/ \E net \in NetOutcomes : StoreBundle(net)
  \/ SectionMount
  \/ \E net \in NetOutcomes : SectionFetchReturn(net)
  \/ \E to \in {"home", "other"} : SectionNavigate(to)

SectionSpec == SectionInit /\ [][SectionNext]_vars

ComponentsInit == Init \/ AdminInit \/ SettingsInit

ComponentsNext ==
  \/ (mgr = "none" /\ Next)
  \/ (mgr \in Managers \cup {"contact"} /\ AdminNext)
  \/ (mgr = "settings" /\ SettingsNext)

ComponentsSpec == ComponentsInit /\ [][ComponentsNext]_vars

\* -------------------------------------------- not configured: properties
\* C21: with the backend not configured, a mounted provider or section has
\* issued no request, is not loading and holds its initial data; a mounted
\* manager has ended its loading with no request from its mount effect and
\* lists nothing; the settings manager has no request and holds the
\* defaults.  None of them has an error state to enter.
C21_PlaceholderWhenNotConfigured ==
  ~configured =>
    /\ (mgr = "none" /\ con.mounted) =>
         /\ ~con.requested
         /\ ~con.inflight
         /\ ~con.loading
         /\ con.data = UnmountedConsumer.data
         /\ con.src = "none"
    /\ mgr \in Managers =>
         /\ ops[1].h = "mount"
         /\ ops[1].log = <<>>
         /\ ops[1].pc = "done"
         /\ ~ui.loading
         /\ ui.list = InitialUi.list
         /\ table \in InitialTables(mgr)
    /\ mgr = "settings" =>
         /\ ops = {}
         /\ ~ui.loading
         /\ ui.settings = defaultSettings
         /\ table \in StoredSettings

\* The Gallery was mounted with the backend not configured, after the
\* loading screen has gone.
C21_Witness ==
  /\ ~configured
  /\ mgr = "none"
  /\ who = "photos"
  /\ con.mounted
  /\ ~con.loading
  /\ ~isLoading

====
